---- MODULE Spec2Model ----
(***************************************************************************)
(* Board navigation and utterance engine of aac-board-viewer (BoardViewer  *)
(* component, React and Vue bindings).                                     *)
(*                                                                         *)
(* Text values (labels, messages, page names) are sequences of one-        *)
(* character strings, so that trimming, splitting, lower-casing and        *)
(* substring search are computed the way the JavaScript code computes      *)
(* them.  Identifiers (page ids, button ids, intents) are TLA+ strings;    *)
(* the empty string "" stands for undefined / null / '' (all falsy).       *)
(***************************************************************************)
EXTENDS Integers, Sequences, FiniteSets, TLC

VARIABLES
    loadId,             \* props.loadId ("" = undefined)
    binding,            \* "react" | "vue": which front-end binding runs
    tree,               \* props.tree
    buttonMetrics,      \* props.buttonMetrics (<<>> = null)
    initialPageId,      \* props.initialPageId ("" = undefined)
    navigateToPageId,   \* props.navigateToPageId ("" = undefined)
    currentPageId,      \* useState / ref currentPageId ("" = null)
    pageHistory,        \* useState / ref pageHistory (page snapshots, by id)
    message,            \* useState / ref message
    currentWordCount,   \* useState / ref currentWordCount
    currentEffort,      \* useState / ref currentEffort
    log,                \* what the latest handler did, in program order
    probe               \* observer of forward/back navigation sequences

vars == <<loadId, binding, tree, buttonMetrics, initialPageId, navigateToPageId,
          currentPageId,
          pageHistory, message, currentWordCount, currentEffort, log, probe>>

(***************************************************************************)
(* Bounds of the model.                                                    *)
(***************************************************************************)
MaxHist == 2
MaxWords == 1
MaxPages == 3

(***************************************************************************)
(* JavaScript string primitives on character sequences.                    *)
(***************************************************************************)
Upper == <<"A","B","C","D","E","F","G","H","I","J","K","L","M",
           "N","O","P","Q","R","S","T","U","V","W","X","Y","Z">>
Lower == <<"a","b","c","d","e","f","g","h","i","j","k","l","m",
           "n","o","p","q","r","s","t","u","v","w","x","y","z">>

toLowerCase(s) ==
    [i \in DOMAIN s |->
        IF \E k \in DOMAIN Upper : Upper[k] = s[i]
        THEN Lower[CHOOSE k \in DOMAIN Upper : Upper[k] = s[i]]
        ELSE s[i]]

includes(s, sub) ==
    \E i \in 0..(Len(s) - Len(sub)) : SubSeq(s, i + 1, i + Len(sub)) = sub

IsSpace(c) == c = " "

RECURSIVE trimStart(_)
trimStart(s) ==
    IF s # <<>> /\ IsSpace(Head(s)) THEN trimStart(Tail(s)) ELSE s

RECURSIVE trimEnd(_)
trimEnd(s) ==
    IF s # <<>> /\ IsSpace(s[Len(s)]) THEN trimEnd(SubSeq(s, 1, Len(s) - 1)) ELSE s

trim(s) == trimEnd(trimStart(s))

\* String.prototype.split(/\s+/): the pieces between maximal runs of
\* whitespace; the empty string splits into one empty piece.
RECURSIVE splitWs(_, _, _)
splitWs(s, cur, inGap) ==
    IF s = <<>> THEN <<cur>>
    ELSE IF IsSpace(Head(s))
         THEN IF inGap THEN splitWs(Tail(s), cur, TRUE)
              ELSE <<cur>> \o splitWs(Tail(s), <<>>, TRUE)
         ELSE splitWs(Tail(s), Append(cur, Head(s)), FALSE)

split(s) == splitWs(s, <<>>, FALSE)

\* Array.prototype.join(' ')
RECURSIVE join(_)
join(parts) ==
    IF parts = <<>> THEN <<>>
    ELSE IF Len(parts) = 1 THEN parts[1]
         ELSE parts[1] \o <<" ">> \o join(Tail(parts))

\* s.slice(0, -1) on strings and arrays
sliceLast(s) == IF s = <<>> THEN <<>> ELSE SubSeq(s, 1, Len(s) - 1)

\* a || b on strings: the first truthy (non-empty) operand
OrStr(a, b) == IF a # <<>> THEN a ELSE b
OrId(a, b) == IF a # "" THEN a ELSE b

(***************************************************************************)
(* Tree model: AACTree / AACPage / AACButton as the viewer reads them.     *)
(* tree.pages is kept as the sequence of its values in insertion order     *)
(* (the order of Object.values / Object.keys); a page's key is its id.     *)
(***************************************************************************)
NoSA == [present |-> FALSE, intent |-> "", targetId |-> "", text |-> <<>>]
SA(intent, targetId, text) ==
    [present |-> TRUE, intent |-> intent, targetId |-> targetId, text |-> text]

Button(id, label, msg, targetPageId, sa) ==
    [id |-> id, label |-> label, message |-> msg,
     targetPageId |-> targetPageId, semanticAction |-> sa]

\* a null grid cell
NullButton == Button("", <<>>, <<>>, "", NoSA)

Page(id, name, grid) == [id |-> id, name |-> name, grid |-> grid]

Tree(pages, rootId, toolbarId) ==
    [pages |-> pages, rootId |-> rootId, toolbarId |-> toolbarId]

\* tree.pages[id] is truthy
HasPage(t, id) == \E i \in DOMAIN t.pages : t.pages[i].id = id

\* tree.pages[id]
PageOf(t, id) == t.pages[CHOOSE i \in DOMAIN t.pages : t.pages[i].id = id]

\* Array.prototype.find over Object.values(tree.pages): index of the first
\* page satisfying Test, 0 when there is none
FindPage(t, test) ==
    IF \E i \in DOMAIN t.pages : test[i]
    THEN CHOOSE i \in DOMAIN t.pages :
            /\ test[i]
            /\ \A j \in 1..(i - 1) : ~test[j]
    ELSE 0

sToolbar == <<"t","o","o","l","b","a","r">>
sToolBar == <<"t","o","o","l"," ","b","a","r">>
sStart == <<"s","t","a","r","t">>

isToolbarName(name) ==
    includes(toLowerCase(name), sToolbar) \/ includes(toLowerCase(name), sToolBar)

isStartName(name) == toLowerCase(name) = sStart

(***************************************************************************)
(* Page Resolver.                                                          *)
(***************************************************************************)
\* the resolver without the Start-page fallback
resolveNoStart(t, init) ==
    IF init # "" /\ HasPage(t, init) THEN init
    ELSE IF t.toolbarId # "" /\ t.rootId # "" /\ t.rootId # t.toolbarId THEN t.rootId
    ELSE IF t.rootId # "" /\ HasPage(t, t.rootId)
            /\ ~isToolbarName(PageOf(t, t.rootId).name) THEN t.rootId
    ELSE LET nonToolbarPage == FindPage(t, [i \in DOMAIN t.pages |->
                                            ~isToolbarName(t.pages[i].name)])
         IN  IF nonToolbarPage # 0 THEN t.pages[nonToolbarPage].id
             ELSE IF Len(t.pages) > 0 THEN t.pages[1].id ELSE ""

\* the resolver without the distinct-toolbar rule
resolveNoToolbarRule(t, init) ==
    IF init # "" /\ HasPage(t, init) THEN init
    ELSE IF t.rootId # "" /\ HasPage(t, t.rootId)
            /\ ~isToolbarName(PageOf(t, t.rootId).name) THEN t.rootId
    ELSE LET startPage == FindPage(t, [i \in DOMAIN t.pages |->
                                       isStartName(t.pages[i].name)])
             nonToolbarPage == FindPage(t, [i \in DOMAIN t.pages |->
                                            ~isToolbarName(t.pages[i].name)])
         IN  IF startPage # 0 THEN t.pages[startPage].id
             ELSE IF nonToolbarPage # 0 THEN t.pages[nonToolbarPage].id
             ELSE IF Len(t.pages) > 0 THEN t.pages[1].id ELSE ""

resolveInitialPageId(t, init) ==
    \* Explicit override
    IF init # "" /\ HasPage(t, init) THEN init
    \* If toolbar exists and rootId is different, use rootId
    ELSE IF t.toolbarId # "" /\ t.rootId # "" /\ t.rootId # t.toolbarId THEN t.rootId
    \* If rootId exists and is not a toolbar, use it
    ELSE IF t.rootId # "" /\ HasPage(t, t.rootId)
            /\ ~isToolbarName(PageOf(t, t.rootId).name) THEN t.rootId
    ELSE LET startPage == FindPage(t, [i \in DOMAIN t.pages |->
                                       isStartName(t.pages[i].name)])
             nonToolbarPage == FindPage(t, [i \in DOMAIN t.pages |->
                                            ~isToolbarName(t.pages[i].name)])
         IN  \* Explicit Start page fallback if present
             IF startPage # 0 THEN t.pages[startPage].id
             \* Fall back to first page that's not a toolbar
             ELSE IF nonToolbarPage # 0 THEN t.pages[nonToolbarPage].id
             \* Last resort: first page
             ELSE IF Len(t.pages) > 0 THEN t.pages[1].id ELSE ""

\* currentPage: tree.pages[currentPageId], or null
HasCurrentPage(t, cur) == cur # "" /\ HasPage(t, cur)

(***************************************************************************)
(* Component state threaded through a handler: the five useState / ref     *)
(* cells and the record of what the handler did (callbacks emitted and     *)
(* inner calls made), in program order.                                    *)
(***************************************************************************)
Ev(ev, arg, text, ok) == [ev |-> ev, arg |-> arg, text |-> text, ok |-> ok]

Emit(st, e) == [st EXCEPT !.log = Append(@, e)]

State(cur, hist, msg, wc, eff) ==
    [currentPageId |-> cur, pageHistory |-> hist, message |-> msg,
     currentWordCount |-> wc, currentEffort |-> eff, log |-> <<>>]

\* buttonMetricsLookup[id]?.effort || 1 ; the lookup is built by forEach,
\* so the last metric of an id wins; metrics = <<>> stands for null
buttonMetricsLookup(metrics, id) ==
    LET hits == {i \in DOMAIN metrics : metrics[i].id = id}
    IN  IF hits = {} THEN 0
        ELSE CHOOSE i \in hits : \A j \in hits : j <= i

effortOf(metrics, id) ==
    LET k == buttonMetricsLookup(metrics, id)
    IN  IF k # 0 /\ metrics[k].effort # 0 THEN metrics[k].effort ELSE 1

\* goToPage pushing the page it moves to instead of the page it leaves
goToPagePushTarget(t, st, targetPageId) ==
    IF targetPageId = "" \/ ~HasPage(t, targetPageId)
    THEN [ok |-> FALSE, st |-> Emit(st, Ev("goToPage", targetPageId, <<>>, FALSE))]
    ELSE LET s1 == IF HasCurrentPage(t, st.currentPageId)
                   THEN [st EXCEPT !.pageHistory = Append(@, targetPageId)]
                   ELSE st
             s2 == [s1 EXCEPT !.currentPageId = targetPageId]
             s3 == Emit(s2, Ev("goToPage", targetPageId, <<>>, TRUE))
         IN  [ok |-> TRUE, st |-> Emit(s3, Ev("onPageChange", targetPageId, <<>>, TRUE))]

\* goToPage without the check that the target page exists
goToPageUnchecked(t, st, targetPageId) ==
    LET s1 == IF HasCurrentPage(t, st.currentPageId)
              THEN [st EXCEPT !.pageHistory = Append(@, st.currentPageId)]
              ELSE st
        s2 == [s1 EXCEPT !.currentPageId = targetPageId]
        s3 == Emit(s2, Ev("goToPage", targetPageId, <<>>, TRUE))
    IN  [ok |-> TRUE, st |-> Emit(s3, Ev("onPageChange", targetPageId, <<>>, TRUE))]

goToPage(t, st, targetPageId) ==
    IF targetPageId = "" \/ ~HasPage(t, targetPageId)
    THEN [ok |-> FALSE, st |-> Emit(st, Ev("goToPage", targetPageId, <<>>, FALSE))]
    ELSE LET s1 == IF HasCurrentPage(t, st.currentPageId)
                   THEN [st EXCEPT !.pageHistory = Append(@, st.currentPageId)]
                   ELSE st
             s2 == [s1 EXCEPT !.currentPageId = targetPageId]
             s3 == Emit(s2, Ev("goToPage", targetPageId, <<>>, TRUE))
         IN  [ok |-> TRUE, st |-> Emit(s3, Ev("onPageChange", targetPageId, <<>>, TRUE))]

\* handleBack returning to the oldest history entry instead of the latest
handleBackToOldest(st) ==
    IF Len(st.pageHistory) > 0
    THEN LET previousPage == st.pageHistory[1]
             s1 == [st EXCEPT !.pageHistory = sliceLast(@)]
             s2 == [s1 EXCEPT !.currentPageId = previousPage]
             s3 == Emit(s2, Ev("handleBack", previousPage, <<>>, TRUE))
         IN  Emit(s3, Ev("onPageChange", previousPage, <<>>, TRUE))
    ELSE Emit(st, Ev("handleBack", "", <<>>, FALSE))

handleBack(st) ==
    IF Len(st.pageHistory) > 0
    THEN LET previousPage == st.pageHistory[Len(st.pageHistory)]
             s1 == [st EXCEPT !.pageHistory = sliceLast(@)]
             s2 == [s1 EXCEPT !.currentPageId = previousPage]
             s3 == Emit(s2, Ev("handleBack", previousPage, <<>>, TRUE))
         IN  Emit(s3, Ev("onPageChange", previousPage, <<>>, TRUE))
    ELSE Emit(st, Ev("handleBack", "", <<>>, FALSE))

clearMessage(st) ==
    Emit([st EXCEPT !.message = <<>>, !.currentWordCount = 0, !.currentEffort = 0],
         Ev("clearMessage", "", <<>>, TRUE))

updateStats(st, effort) ==
    [st EXCEPT !.currentWordCount = @ + 1, !.currentEffort = @ + effort]

\* deleteLastWord splitting the message without trimming it first
deleteLastWordNoTrim(st) ==
    Emit([st EXCEPT !.message = join(sliceLast(split(@)))],
         Ev("deleteLastWord", "", <<>>, TRUE))

deleteLastWord(st) ==
    Emit([st EXCEPT !.message = join(sliceLast(split(trim(@))))],
         Ev("deleteLastWord", "", <<>>, TRUE))

\* deleteLastCharacter also taking the character's word off the count
deleteLastCharacterCounted(st) ==
    Emit([st EXCEPT !.message = sliceLast(@),
                    !.currentWordCount = IF @ > 0 THEN @ - 1 ELSE 0],
         Ev("deleteLastCharacter", "", <<>>, TRUE))

deleteLastCharacter(st) ==
    Emit([st EXCEPT !.message = sliceLast(@)],
         Ev("deleteLastCharacter", "", <<>>, TRUE))

appendText(st, button, word, effort) ==
    LET trimmed == OrStr(word, button.label)
    IN  IF trimmed # <<>>
        THEN Emit(updateStats(
                    [st EXCEPT !.message =
                        @ \o (IF @ # <<>> THEN <<" ">> ELSE <<>>) \o trimmed],
                    effort),
                  Ev("appendText", "", trimmed, TRUE))
        ELSE Emit(st, Ev("appendText", "", trimmed, FALSE))

\* const targetPageId = button.targetPageId || button.semanticAction?.targetId
targetOf(button) == OrId(button.targetPageId, button.semanticAction.targetId)

\* button.label before button.message
textValueLabelFirst(button) ==
    OrStr(OrStr(button.semanticAction.text, button.label), button.message)

\* const textValue = button.semanticAction?.text || button.message || button.label || ''
textValueOf(button) ==
    OrStr(OrStr(button.semanticAction.text, button.message), button.label)

\* the interpretation with the fallback navigation tried before the switch
dispatchTargetFirst(t, metrics, s0, button) ==
    LET intent == button.semanticAction.intent
        targetPageId == targetOf(button)
        effort == effortOf(metrics, button.id)
        textValue == textValueOf(button)
        nav == goToPage(t, s0, targetPageId)
        s1 == IF targetPageId # "" THEN nav.st ELSE s0
        home == goToPage(t, s1, t.rootId)
    IN  IF targetPageId # "" /\ nav.ok THEN nav.st
        ELSE IF intent = "GO_BACK" THEN handleBack(s1)
        ELSE IF intent = "GO_HOME" /\ t.rootId # "" /\ home.ok THEN home.st
        ELSE IF intent = "DELETE_WORD" THEN deleteLastWord(s1)
        ELSE IF intent = "DELETE_CHARACTER" THEN deleteLastCharacter(s1)
        ELSE IF intent = "CLEAR_TEXT" THEN clearMessage(s1)
        ELSE appendText(IF intent = "GO_HOME" /\ t.rootId # "" THEN home.st ELSE s1,
                        button, textValue, effort)

\* the interpretation with an intent outside the switch's cases always
\* taken to the final appendText, never to the fallback navigation
dispatchUnknownSpeaks(t, metrics, s0, button) ==
    LET intent == button.semanticAction.intent
        targetPageId == targetOf(button)
        effort == effortOf(metrics, button.id)
        textValue == textValueOf(button)
        nav == goToPage(t, s0, targetPageId)
        s1 == IF intent = "NAVIGATE_TO" THEN nav.st ELSE s0
        home == goToPage(t, s1, t.rootId)
        s2 == IF intent = "GO_HOME" /\ t.rootId # "" THEN home.st ELSE s1
        fallback == goToPage(t, s2, targetPageId)
    IN  IF intent = "NAVIGATE_TO" /\ nav.ok THEN nav.st
        ELSE IF intent = "GO_BACK" THEN handleBack(s1)
        ELSE IF intent = "GO_HOME" /\ t.rootId # "" /\ home.ok THEN home.st
        ELSE IF intent = "DELETE_WORD" THEN deleteLastWord(s1)
        ELSE IF intent = "DELETE_CHARACTER" THEN deleteLastCharacter(s1)
        ELSE IF intent = "CLEAR_TEXT" THEN clearMessage(s1)
        ELSE IF intent \in {"SPEAK_IMMEDIATE", "SPEAK_TEXT", "INSERT_TEXT"}
             THEN appendText(s1, button, textValue, effort)
        ELSE IF intent \notin {"", "NAVIGATE_TO", "GO_HOME"}
             THEN appendText(s2, button, textValue, effort)
        ELSE IF targetPageId # "" /\ fallback.ok THEN fallback.st
        ELSE appendText(IF targetPageId # "" THEN fallback.st ELSE s2,
                        button, textValue, effort)

\* handleButtonClick after the external callback: the interpretation of
\* the button
dispatch(t, metrics, s0, button) ==
    LET intent == button.semanticAction.intent
        targetPageId == targetOf(button)
        effort == effortOf(metrics, button.id)
        textValue == textValueOf(button)
        nav == goToPage(t, s0, targetPageId)
        \* state after the NAVIGATE_TO attempt, when it was made and failed
        s1 == IF intent = "NAVIGATE_TO" THEN nav.st ELSE s0
        home == goToPage(t, s1, t.rootId)
        \* state on leaving the switch by break
        s2 == IF intent = "GO_HOME" /\ t.rootId # "" THEN home.st ELSE s1
        fallback == goToPage(t, s2, targetPageId)
    IN  \* Navigation takes precedence
        IF intent = "NAVIGATE_TO" /\ nav.ok THEN nav.st
        ELSE IF intent = "GO_BACK" THEN handleBack(s1)
        ELSE IF intent = "GO_HOME" /\ t.rootId # "" /\ home.ok THEN home.st
        ELSE IF intent = "DELETE_WORD" THEN deleteLastWord(s1)
        ELSE IF intent = "DELETE_CHARACTER" THEN deleteLastCharacter(s1)
        ELSE IF intent = "CLEAR_TEXT" THEN clearMessage(s1)
        ELSE IF intent \in {"SPEAK_IMMEDIATE", "SPEAK_TEXT", "INSERT_TEXT"}
             THEN appendText(s1, button, textValue, effort)
        \* Fallback navigation if intent not set but target exists
        ELSE IF targetPageId # "" /\ fallback.ok THEN fallback.st
        \* Otherwise add to message
        ELSE appendText(IF targetPageId # "" THEN fallback.st ELSE s2,
                        button, textValue, effort)

\* handleButtonClick calling the external callback after the interpretation
handleButtonClickLate(t, metrics, st, button) ==
    Emit(dispatch(t, metrics, st, button), Ev("onButtonClick", button.id, <<>>, TRUE))

handleButtonClick(t, metrics, st, button) ==
    \* Call external callback if provided
    dispatch(t, metrics, Emit(st, Ev("onButtonClick", button.id, <<>>, TRUE)), button)

(***************************************************************************)
(* Boards the host can hand to the viewer: a tree and its buttonMetrics.   *)
(***************************************************************************)
wA == <<"a">>
wB == <<"b">>
wSpace == <<" ">>

nHome == <<"H","o","m","e">>
nFood == <<"F","o","o","d">>
nToolbar == <<"T","o","o","l","b","a","r">>
nMainToolbar == <<"M","a","i","n"," ","T","o","o","l","b","a","r">>
nStart == <<"S","t","a","r","t">>

\* Board 1: root page, a second page and a distinct toolbar page
HomeGrid ==
    << << Button("bA", wA, <<>>, "", NoSA),
          Button("bFood", wB, <<>>, "p2", NoSA),
          NullButton >>,
       << Button("bDead", wB, <<>>, "missing", NoSA),
          NullButton,
          Button("bNavBoth", wA, <<>>, "p3", SA("NAVIGATE_TO", "p2", <<>>)) >> >>

FoodGrid ==
    << << Button("bBack", wA, <<>>, "p1", SA("GO_BACK", "", <<>>)),
          Button("bSelf", wA, <<>>, "p2", NoSA),
          Button("bDelW", wA, <<>>, "p1", SA("DELETE_WORD", "", <<>>)) >>,
       << Button("bDelC", wA, <<>>, "", SA("DELETE_CHARACTER", "", <<>>)),
          Button("bClear", wA, <<>>, "p1", SA("CLEAR_TEXT", "", <<>>)),
          Button("bSay", wA, wA, "p1", SA("SPEAK_TEXT", "", wB)) >> >>

ToolbarGrid ==
    << << Button("tHome", wA, <<>>, "", SA("GO_HOME", "", <<>>)) >>,
       << Button("tTool", wA, <<>>, "p3", NoSA) >> >>

Board1 ==
    [tree |-> Tree(<< Page("p1", nHome, HomeGrid), Page("p2", nFood, FoodGrid),
                      Page("p3", nToolbar, ToolbarGrid) >>, "p1", "p3"),
     metrics |-> << [id |-> "bA", effort |-> 2], [id |-> "bSay", effort |-> 0] >>]

\* Board 2: no toolbar, the root is unset, a page is mis-named as a toolbar
Board2 ==
    [tree |-> Tree(<< Page("p1", nMainToolbar,
                           << << Button("cFood", wB, wA, "p2", NoSA),
                                 Button("cSpace", wSpace, <<>>, "", NoSA) >> >>),
                      Page("p2", nStart,
                           << << Button("cHome", wA, <<>>, "p1", SA("GO_HOME", "", <<>>)),
                                 Button("cBack", wA, wB, "", SA("GO_BACK", "", <<>>)) >> >>) >>,
                   "", ""),
     metrics |-> <<>>]

\* Board 3: a distinct toolbar and a root id that names no page
Board3 ==
    [tree |-> Tree(<< Page("p2", nFood,
                           << << Button("dBogus", wA, <<>>, "", SA("BOGUS", "", <<>>)),
                                 Button("dHome", wB, <<>>, "p3", SA("GO_HOME", "", <<>>)) >> >>),
                      Page("p3", nToolbar, ToolbarGrid) >>, "missing", "p3"),
     metrics |-> <<>>]

\* Board 4: a tree without pages
Board4 == [tree |-> Tree(<<>>, "", ""), metrics |-> <<>>]

Boards == {Board1, Board2, Board3, Board4}

InitialPageIds == {"", "p2"}
NavigateToPageIds == {"", "p1", "missing"}

\* the cells of a grid, row-major
RECURSIVE Flatten(_)
Flatten(grid) == IF grid = <<>> THEN <<>> ELSE Head(grid) \o Flatten(Tail(grid))

GridButtons(page) ==
    {c \in {Flatten(page.grid)[i] : i \in DOMAIN Flatten(page.grid)} : c.id # ""}

\* the buttons rendered with an onClick handler: those of the current page's
\* grid and of the toolbar side panel; nothing when the placeholder is shown
Clickable(t, cur) ==
    IF ~HasCurrentPage(t, cur) THEN {}
    ELSE GridButtons(PageOf(t, cur))
         \cup (IF t.toolbarId # "" /\ HasPage(t, t.toolbarId)
               THEN GridButtons(PageOf(t, t.toolbarId)) ELSE {})

(***************************************************************************)
(* Effects / watchers that react to prop changes.                          *)
(***************************************************************************)
\* useEffect(..., [resolveInitialPageId]) / watch([tree, initialPageId])
syncEffect(t, init, st) ==
    Emit([st EXCEPT !.currentPageId = resolveInitialPageId(t, init),
                    !.pageHistory = <<>>],
         Ev("load", resolveInitialPageId(t, init), <<>>, TRUE))

\* a navigateToPageId effect that leaves the history as it was
navigateEffectKeepHistory(t, pageId, st) ==
    IF pageId = "" \/ ~HasPage(t, pageId)
    THEN Emit(st, Ev("override", pageId, <<>>, FALSE))
    ELSE Emit(Emit([st EXCEPT !.currentPageId = pageId],
                   Ev("override", pageId, <<>>, TRUE)),
              Ev("onPageChange", pageId, <<>>, TRUE))

\* useEffect(..., [navigateToPageId, onPageChange, tree.pages]) /
\* watch(() => props.navigateToPageId, ...)
navigateEffect(t, pageId, st) ==
    IF pageId = "" \/ ~HasPage(t, pageId)
    THEN Emit(st, Ev("override", pageId, <<>>, FALSE))
    ELSE Emit(Emit([st EXCEPT !.currentPageId = pageId, !.pageHistory = <<>>],
                   Ev("override", pageId, <<>>, TRUE)),
              Ev("onPageChange", pageId, <<>>, TRUE))

(***************************************************************************)
(* Observer of navigation sequences: from a state with an empty history it *)
(* counts the successful forward navigations (n) and then the goBack       *)
(* operations (m) that follow them.                                        *)
(***************************************************************************)
Fresh(cur) == [phase |-> "fwd", start |-> cur, n |-> 0, m |-> 0]
Off == [phase |-> "off", start |-> "", n |-> 0, m |-> 0]

HasEv(l, ev) == \E i \in DOMAIN l : l[i].ev = ev
HasOkEv(l, ev) == \E i \in DOMAIN l : l[i].ev = ev /\ l[i].ok

Restart(post) == IF post.pageHistory = <<>> THEN Fresh(post.currentPageId) ELSE Off

Observe(pr, post) ==
    IF HasOkEv(post.log, "goToPage")
    THEN IF pr.phase = "fwd" /\ pr.n < MaxHist
         THEN [pr EXCEPT !.n = @ + 1] ELSE Restart(post)
    ELSE IF HasEv(post.log, "handleBack")
    THEN IF pr.phase \in {"fwd", "back"} /\ pr.m < pr.n
         THEN [pr EXCEPT !.phase = "back", !.m = @ + 1] ELSE Restart(post)
    ELSE IF HasEv(post.log, "load") \/ HasEv(post.log, "override")
    THEN Restart(post)
    ELSE pr

(***************************************************************************)
(* The state machine.                                                      *)
(***************************************************************************)
Now == State(currentPageId, pageHistory, message, currentWordCount, currentEffort)

Commit(post) ==
    /\ currentPageId' = post.currentPageId
    /\ pageHistory' = post.pageHistory
    /\ message' = post.message
    /\ currentWordCount' = post.currentWordCount
    /\ currentEffort' = post.currentEffort
    /\ log' = post.log
    /\ probe' = Observe(probe, post)

\* what mounting the component does: useState(resolveInitialPageId()) and,
\* in React, the effects of the first render
Mounted(b, t, init, nav) ==
    LET s0 == State(resolveInitialPageId(t, init), <<>>, <<>>, 0, 0)
    IN  IF b = "react" THEN navigateEffect(t, nav, syncEffect(t, init, s0))
        ELSE Emit(s0, Ev("load", s0.currentPageId, <<>>, TRUE))

Init ==
    /\ binding \in {"react", "vue"}
    /\ loadId = ""
    /\ \E bd \in Boards : tree = bd.tree /\ buttonMetrics = bd.metrics
    /\ initialPageId \in InitialPageIds
    /\ navigateToPageId \in NavigateToPageIds
    /\ LET post == Mounted(binding, tree, initialPageId, navigateToPageId)
       IN  /\ currentPageId = post.currentPageId
           /\ pageHistory = post.pageHistory
           /\ message = post.message
           /\ currentWordCount = post.currentWordCount
           /\ currentEffort = post.currentEffort
           /\ log = post.log
           /\ probe = Restart(post)

\* onClick of a main-grid or toolbar button
Activate ==
    /\ UNCHANGED <<loadId, binding, tree, buttonMetrics, initialPageId, navigateToPageId>>
    /\ \E button \in Clickable(tree, currentPageId) :
          Commit(handleButtonClick(tree, buttonMetrics, Now, button))

\* a main-grid or toolbar button is activated (within the model's bounds)
ClickButton ==
    /\ Activate
    /\ Len(pageHistory') <= MaxHist
    /\ currentWordCount' <= MaxWords

\* the header's back control, rendered while the history is non-empty
ClickBack ==
    /\ HasCurrentPage(tree, currentPageId)
    /\ Len(pageHistory) > 0
    /\ Commit(handleBack(Now))
    /\ UNCHANGED <<loadId, binding, tree, buttonMetrics, initialPageId, navigateToPageId>>

\* the message bar's clear control, rendered while the message is non-empty
ClickClear ==
    /\ HasCurrentPage(tree, currentPageId)
    /\ message # <<>>
    /\ Commit(clearMessage(Now))
    /\ UNCHANGED <<loadId, binding, tree, buttonMetrics, initialPageId, navigateToPageId>>

\* the host passes another tree
SetTree ==
    /\ \E bd \in Boards :
          /\ bd.tree # tree
          /\ tree' = bd.tree
          /\ buttonMetrics' = bd.metrics
          /\ LET synced == syncEffect(bd.tree, initialPageId, Now)
             IN  Commit(IF binding = "react"
                        THEN navigateEffect(bd.tree, navigateToPageId, synced)
                        ELSE synced)
    /\ UNCHANGED <<loadId, binding, initialPageId, navigateToPageId>>

\* the host passes another initialPageId
SetInitialPageId ==
    /\ \E id \in InitialPageIds :
          /\ id # initialPageId
          /\ initialPageId' = id
          /\ Commit(syncEffect(tree, id, Now))
    /\ UNCHANGED <<loadId, binding, tree, buttonMetrics, navigateToPageId>>

\* the host passes another navigateToPageId
SetNavigateToPageId ==
    /\ \E id \in NavigateToPageIds :
          /\ id # navigateToPageId
          /\ navigateToPageId' = id
          /\ Commit(navigateEffect(tree, id, Now))
    /\ UNCHANGED <<loadId, binding, tree, buttonMetrics, initialPageId>>

\* React only: the host re-renders with a new onPageChange function, a
\* dependency of the navigateToPageId effect
SetOnPageChange ==
    /\ binding = "react"
    /\ Commit(navigateEffect(tree, navigateToPageId, Now))
    /\ UNCHANGED <<loadId, binding, tree, buttonMetrics, initialPageId, navigateToPageId>>

Next ==
    \/ ClickButton
    \/ ClickBack
    \/ ClickClear
    \/ SetTree
    \/ SetInitialPageId
    \/ SetNavigateToPageId
    \/ SetOnPageChange

Spec == Init /\ [][Next]_vars

(***************************************************************************)
(* Properties.                                                             *)
(***************************************************************************)
EvIdx(l, ev) == {i \in DOMAIN l : l[i].ev = ev}
OkIdx(l, ev) == {i \in DOMAIN l : l[i].ev = ev /\ l[i].ok}

NavUnchanged == currentPageId' = currentPageId /\ pageHistory' = pageHistory
UtteranceUnchanged ==
    /\ message' = message
    /\ currentWordCount' = currentWordCount
    /\ currentEffort' = currentEffort

\* C1: from a state with currentPageId = P and an empty history, N successful
\* forward navigations followed by N goBack operations end with
\* currentPageId = P and an empty history.
C1_HistorySymmetry ==
    (probe.phase = "back" /\ probe.m = probe.n)
        => (currentPageId = probe.start /\ pageHistory = <<>>)

\* two forward navigations and two goBack operations have been made
C1_Witness == probe.phase = "back" /\ probe.m = probe.n /\ probe.n >= 2

\* C2: goToPage(target) fails and leaves currentPageId and history unchanged
\* when target is absent or names no page; otherwise it appends the page that
\* was current (if any) to the history, sets currentPageId to target and
\* succeeds.
C2_GoToPageContract ==
    [][ /\ \A i \in EvIdx(log', "goToPage") :
              /\ log'[i].ok <=> (log'[i].arg # "" /\ HasPage(tree, log'[i].arg))
              /\ log'[i].ok =>
                    /\ currentPageId' = log'[i].arg
                    /\ pageHistory' =
                          IF HasCurrentPage(tree, currentPageId)
                          THEN Append(pageHistory, currentPageId)
                          ELSE pageHistory
        /\ (EvIdx(log', "goToPage") # {} /\ OkIdx(log', "goToPage") = {})
              => NavUnchanged
      ]_vars

\* a successful goToPage has pushed the page that was current
C2_Witness ==
    /\ OkIdx(log, "goToPage") # {}
    /\ Len(pageHistory) >= 2
    /\ pageHistory[Len(pageHistory)] # currentPageId

\* C3: goBack with an empty history changes nothing and emits no page-change;
\* otherwise it removes exactly the most recently pushed history entry and
\* sets currentPageId to that entry's page id.
C3_GoBackContract ==
    [][ \A i \in EvIdx(log', "handleBack") :
            IF pageHistory = <<>>
            THEN /\ ~log'[i].ok
                 /\ NavUnchanged
                 /\ UtteranceUnchanged
                 /\ EvIdx(log', "onPageChange") = {}
            ELSE /\ log'[i].ok
                 /\ pageHistory' = SubSeq(pageHistory, 1, Len(pageHistory) - 1)
                 /\ currentPageId' = pageHistory[Len(pageHistory)]
      ]_vars

\* a goBack has popped one entry of a longer history
C3_Witness ==
    /\ OkIdx(log, "handleBack") # {}
    /\ pageHistory # <<>>

\* C4: onPageChange is emitted exactly once per committed navigation
\* transition, carries the new currentPageId, and is never emitted for a
\* failed or no-op navigation.
C4_OnPageChangeOncePerTransition ==
    [][ /\ Cardinality(EvIdx(log', "onPageChange")) =
              Cardinality(OkIdx(log', "goToPage") \cup OkIdx(log', "handleBack")
                          \cup OkIdx(log', "override"))
        /\ \A i \in EvIdx(log', "onPageChange") : log'[i].arg = currentPageId'
        \* no navigation was requested and none took place
        /\ (/\ NavUnchanged
            /\ tree' = tree
            /\ navigateToPageId' = navigateToPageId)
              => EvIdx(log', "onPageChange") = {}
      ]_vars

\* C5: on every button activation onButtonClick(button) is invoked exactly
\* once, before anything else the activation does, also when the activation
\* is a no-op.
C5_OnButtonClickFirst ==
    [][ Activate =>
          /\ Cardinality(EvIdx(log', "onButtonClick")) = 1
          /\ log'[1].ev = "onButtonClick"
          /\ \E b \in Clickable(tree, currentPageId) : b.id = log'[1].arg
      ]_vars

\* an activation that navigated: the callback came before the page change
C5_Witness ==
    /\ Len(log) >= 3
    /\ log[1].ev = "onButtonClick"
    /\ log[Len(log)].ev = "onPageChange"

(***************************************************************************)
(* The Page Resolver on its own: the component is mounted once on a tree   *)
(* drawn from all trees of up to MaxPages pages.                           *)
(***************************************************************************)
nSTART == <<"S","T","A","R","T">>
nStarts == <<"S","t","a","r","t","s">>
nToolBar == <<"T","o","o","l"," ","B","a","r">>

ResolverNames == {nStarts, nMainToolbar, nSTART, nToolBar}
ResolverIds == {"", "p1", "p2", "missing"}
PageIdPool == <<"p1", "p2", "p3", "p4", "p5">>

ResolverPages ==
    UNION {[1..k -> ResolverNames] : k \in 0..MaxPages}

ResolverTree(names, rootId, toolbarId) ==
    Tree([i \in DOMAIN names |-> Page(PageIdPool[i], names[i], <<>>)],
         rootId, toolbarId)

InitResolver ==
    /\ binding \in {"react", "vue"}
    /\ loadId = ""
    /\ \E names \in ResolverPages, rootId \in ResolverIds, toolbarId \in ResolverIds :
          tree = ResolverTree(names, rootId, toolbarId)
    /\ buttonMetrics = <<>>
    /\ initialPageId \in ResolverIds
    /\ navigateToPageId = ""
    /\ currentPageId = ""
    /\ pageHistory = <<>>
    /\ message = <<>>
    /\ currentWordCount = 0
    /\ currentEffort = 0
    /\ log = <<>>
    /\ probe = Off

\* the component is mounted
Mount ==
    /\ log = <<>>
    /\ Commit(Mounted(binding, tree, initialPageId, navigateToPageId))
    /\ UNCHANGED <<loadId, binding, tree, buttonMetrics, initialPageId, navigateToPageId>>

NextResolver == Mount

SpecResolver == InitResolver /\ [][NextResolver]_vars

(***************************************************************************)
(* Properties of the Page Resolver (checked under SpecResolver).           *)
(***************************************************************************)
SameLetter(a, b) ==
    \/ a = b
    \/ \E k \in DOMAIN Upper :
          (a = Upper[k] /\ b = Lower[k]) \/ (a = Lower[k] /\ b = Upper[k])

EqualsIgnoringCase(s, w) ==
    Len(s) = Len(w) /\ \A i \in DOMAIN s : SameLetter(s[i], w[i])

ContainsIgnoringCase(s, w) ==
    \E i \in 1..(Len(s) - Len(w) + 1) :
        \A j \in 1..Len(w) : SameLetter(s[i + j - 1], w[j])

LooksLikeToolbar(name) ==
    ContainsIgnoringCase(name, sToolbar) \/ ContainsIgnoringCase(name, sToolBar)

IsMounted == log # <<>>

ValidExplicit ==
    initialPageId # "" /\ \E i \in DOMAIN tree.pages : tree.pages[i].id = initialPageId

\* p is the first page, in page-map order, that satisfies Test
FirstPageWith(p, test) ==
    \E i \in DOMAIN tree.pages :
        /\ tree.pages[i].id = p
        /\ test[i]
        /\ \A j \in 1..(i - 1) : ~test[j]

\* C6 as stated: a valid explicitPageId is returned before anything else;
\* otherwise, when toolbarId is set and differs from rootId, the resolver
\* returns rootId, whatever the pages are named.
C6_AsStated ==
    IsMounted =>
        /\ ValidExplicit => currentPageId = initialPageId
        /\ (~ValidExplicit /\ tree.toolbarId # "" /\ tree.toolbarId # tree.rootId)
              => currentPageId = tree.rootId

\* C6 (amended): a valid explicitPageId is returned before anything else;
\* otherwise, when rootId and toolbarId are both set and differ, the resolver
\* returns rootId, whatever the pages are named.
C6_ResolverPrecedence ==
    IsMounted =>
        /\ ValidExplicit => currentPageId = initialPageId
        /\ (/\ ~ValidExplicit
            /\ tree.toolbarId # ""
            /\ tree.rootId # ""
            /\ tree.toolbarId # tree.rootId)
              => currentPageId = tree.rootId

\* the scenario of the claim: the root is named "Main Toolbar", the toolbar
\* is another page, a further page is named "START", and the root was chosen
C6_Witness ==
    /\ IsMounted
    /\ ~ValidExplicit
    /\ Len(tree.pages) = 3
    /\ tree.rootId = "p1" /\ tree.toolbarId = "p2"
    /\ tree.pages[1].name = nMainToolbar
    /\ tree.pages[3].name = nSTART
    /\ currentPageId = "p1"

\* C7: with no valid explicitPageId and no distinct toolbar the resolver
\* returns rootId if that page exists and is not named like a toolbar, else
\* the first page named "start" (any case), else the first page not named
\* like a toolbar, else the first page, else null.
C7_ResolverFallbackChain ==
    (/\ IsMounted
     /\ ~ValidExplicit
     /\ ~(tree.toolbarId # "" /\ tree.rootId # "" /\ tree.toolbarId # tree.rootId))
    =>
    LET Idx == DOMAIN tree.pages
        IsRoot == [i \in Idx |-> tree.pages[i].id = tree.rootId]
        NotToolbar == [i \in Idx |-> ~LooksLikeToolbar(tree.pages[i].name)]
        IsStart == [i \in Idx |-> EqualsIgnoringCase(tree.pages[i].name, sStart)]
        AnyPage == [i \in Idx |-> TRUE]
    IN  IF tree.rootId # "" /\ \E i \in Idx : IsRoot[i] /\ NotToolbar[i]
        THEN currentPageId = tree.rootId
        ELSE IF \E i \in Idx : IsStart[i]
        THEN FirstPageWith(currentPageId, IsStart)
        ELSE IF \E i \in Idx : NotToolbar[i]
        THEN FirstPageWith(currentPageId, NotToolbar)
        ELSE IF Idx # {}
        THEN FirstPageWith(currentPageId, AnyPage)
        ELSE currentPageId = ""

\* the root is named like a toolbar and a later page named "START" was
\* chosen over an earlier page that is not named like a toolbar
C7_Witness ==
    /\ IsMounted
    /\ ~ValidExplicit
    /\ tree.toolbarId = ""
    /\ Len(tree.pages) = 3
    /\ tree.rootId = "p1"
    /\ tree.pages[1].name = nToolBar
    /\ tree.pages[2].name = nStarts
    /\ tree.pages[3].name = nSTART
    /\ currentPageId = "p3"

(***************************************************************************)
(* The Action Interpreter on its own: one activation of a button drawn     *)
(* from all combinations of the fields the interpreter reads, in a         *)
(* component state drawn from a set of states the viewer can be in.        *)
(***************************************************************************)
IntentPool ==
    {"", "NAVIGATE_TO", "GO_BACK", "GO_HOME", "DELETE_WORD", "DELETE_CHARACTER",
     "CLEAR_TEXT", "SPEAK_IMMEDIATE", "SPEAK_TEXT", "INSERT_TEXT", "BOGUS"}

SemanticActionPool ==
    {NoSA} \cup {SA(i, tid, txt) : i \in IntentPool, tid \in {"", "p2", "missing"},
                                  txt \in {<<>>, wB}}

ButtonPool ==
    {Button("u", label, msg, tp, sa) :
        label \in {<<>>, <<"c">>}, msg \in {<<>>, wA, wSpace},
        tp \in {"", "p3", "missing"}, sa \in SemanticActionPool}

\* buttonMetrics: null, or a metric of the button with effort 0 or 2, or a
\* metric of another button only
MetricsPool ==
    {<<>>, << [id |-> "u", effort |-> 0] >>, << [id |-> "u", effort |-> 2] >>,
     << [id |-> "v", effort |-> 2] >>}

InterpTree(button, rootId) ==
    Tree(<< Page("p1", nHome, << <<button>> >>),
            Page("p2", nFood, << <<button>> >>),
            Page("p3", nStarts, << <<button>> >>) >>, rootId, "")

InitInterp ==
    /\ binding \in {"react", "vue"}
    /\ loadId = ""
    /\ \E button \in ButtonPool, rootId \in {"", "p1", "missing"} :
          tree = InterpTree(button, rootId)
    /\ buttonMetrics \in MetricsPool
    /\ initialPageId = ""
    /\ navigateToPageId = ""
    /\ currentPageId \in {"p1", "p3"}
    /\ pageHistory \in {<<>>, <<"p2">>}
    /\ \E words \in 0..1 :
          /\ message = IF words = 0 THEN <<>> ELSE wA
          /\ currentWordCount = words
          /\ currentEffort = words
    /\ log = <<>>
    /\ probe = Off

\* the first activation after the component reached this state
ClickOnce == log = <<>> /\ Activate

NextInterp == ClickOnce

SpecInterp == InitInterp /\ [][NextInterp]_vars

(***************************************************************************)
(* Properties of the Action Interpreter.                                   *)
(***************************************************************************)
\* this step is the activation of button b
Activated(b) ==
    /\ log' # <<>>
    /\ log'[1].ev = "onButtonClick"
    /\ b.id = log'[1].arg
    /\ b \in Clickable(tree, currentPageId)
    /\ Activate

Appended(txt) ==
    message' = IF message = <<>> THEN txt ELSE message \o <<" ">> \o txt

NavigatedTo(id) ==
    /\ currentPageId' = id
    /\ pageHistory' = Append(pageHistory, currentPageId)
    /\ \E i \in EvIdx(log', "onPageChange") : log'[i].arg = id

\* the button the interpreter specification activates
TheButton == tree.pages[1].grid[1][1]

\* C8: activating a button without semanticAction whose targetPageId names
\* no existing page leaves currentPageId and history unchanged, emits no
\* onPageChange and appends the button's text (message, else label),
\* increasing wordCount by 1.
C8_DeadLinkSpeaks ==
    [][ \A b \in Clickable(tree, currentPageId) :
          (/\ ~b.semanticAction.present
           /\ ~HasPage(tree, b.targetPageId)
           /\ Activated(b))
          => /\ NavUnchanged
             /\ EvIdx(log', "onPageChange") = {}
             /\ LET txt == IF b.message # <<>> THEN b.message ELSE b.label
                IN  IF txt # <<>>
                    THEN Appended(txt) /\ currentWordCount' = currentWordCount + 1
                    ELSE UtteranceUnchanged
      ]_vars

\* a dead link with a label and no message was activated on a non-empty
\* message: the label was appended
C8_Witness ==
    /\ log # <<>>
    /\ ~TheButton.semanticAction.present
    /\ TheButton.targetPageId = "missing"
    /\ TheButton.message = <<>>
    /\ message = <<"a", " ", "c">>
    /\ currentWordCount = 2
    /\ currentPageId = "p1"

\* C9: a NAVIGATE_TO button whose semanticAction.targetId names an existing
\* page navigates to that page and leaves the utterance unchanged, whatever
\* its targetPageId holds.
C9_NavigateToSemanticTarget ==
    [][ \A b \in Clickable(tree, currentPageId) :
          (/\ b.semanticAction.intent = "NAVIGATE_TO"
           /\ HasPage(tree, b.semanticAction.targetId)
           /\ Activated(b))
          => NavigatedTo(b.semanticAction.targetId) /\ UtteranceUnchanged
      ]_vars

\* C10: a button whose intent is GO_BACK, DELETE_WORD, DELETE_CHARACTER,
\* CLEAR_TEXT, SPEAK_IMMEDIATE, SPEAK_TEXT or INSERT_TEXT does that action
\* only and never navigates to its targetPageId; the speak and insert intents
\* append semanticAction.text, else message, else label.
C10_IntentDispatch ==
    [][ \A b \in Clickable(tree, currentPageId) :
          LET intent == b.semanticAction.intent
              txt == IF b.semanticAction.text # <<>> THEN b.semanticAction.text
                     ELSE IF b.message # <<>> THEN b.message
                     ELSE b.label
          IN  (/\ intent \in {"GO_BACK", "DELETE_WORD", "DELETE_CHARACTER", "CLEAR_TEXT",
                              "SPEAK_IMMEDIATE", "SPEAK_TEXT", "INSERT_TEXT"}
               /\ Activated(b)) =>
              /\ intent \in {"GO_BACK", "DELETE_WORD", "DELETE_CHARACTER", "CLEAR_TEXT",
                             "SPEAK_IMMEDIATE", "SPEAK_TEXT", "INSERT_TEXT"}
                    => EvIdx(log', "goToPage") = {}
              /\ intent = "GO_BACK" =>
                    /\ UtteranceUnchanged
                    /\ IF pageHistory = <<>> THEN NavUnchanged
                       ELSE /\ currentPageId' = pageHistory[Len(pageHistory)]
                            /\ pageHistory' = SubSeq(pageHistory, 1, Len(pageHistory) - 1)
              /\ intent = "DELETE_WORD" =>
                    /\ NavUnchanged
                    /\ currentWordCount' = currentWordCount
                    /\ currentEffort' = currentEffort
                    /\ Len(message') <= Len(message)
                    /\ message' = SubSeq(message, 1, Len(message'))
                    /\ message # <<>> => message' # message
              /\ intent = "DELETE_CHARACTER" =>
                    /\ NavUnchanged
                    /\ currentWordCount' = currentWordCount
                    /\ currentEffort' = currentEffort
                    /\ message' = SubSeq(message, 1, Len(message) - 1)
              /\ intent = "CLEAR_TEXT" =>
                    /\ NavUnchanged
                    /\ message' = <<>>
                    /\ currentWordCount' = 0
                    /\ currentEffort' = 0
              /\ intent \in {"SPEAK_IMMEDIATE", "SPEAK_TEXT", "INSERT_TEXT"} =>
                    /\ NavUnchanged
                    /\ IF txt # <<>>
                       THEN Appended(txt) /\ currentWordCount' = currentWordCount + 1
                       ELSE UtteranceUnchanged
      ]_vars

\* a SPEAK_TEXT button without semanticAction.text whose targetPageId names
\* an existing page was activated: its message was appended, the page kept
C10_Witness ==
    /\ log # <<>>
    /\ TheButton.semanticAction.intent = "SPEAK_TEXT"
    /\ TheButton.semanticAction.text = <<>>
    /\ TheButton.targetPageId = "p3"
    /\ TheButton.message = wA
    /\ TheButton.label = <<"c">>
    /\ message = <<"a", " ", "a">>
    /\ currentPageId = "p1"
    /\ pageHistory = <<"p2">>

\* C11: a GO_HOME activation is navigateTo(tree.rootId) when rootId is set and
\* names an existing page; otherwise it is a no-op: currentPageId, history and
\* the utterance are unchanged and no onPageChange is emitted.
C11_GoHome ==
    [][ \A b \in Clickable(tree, currentPageId) :
          (b.semanticAction.intent = "GO_HOME" /\ Activated(b)) =>
             IF tree.rootId # "" /\ HasPage(tree, tree.rootId)
             THEN NavigatedTo(tree.rootId) /\ UtteranceUnchanged
             ELSE /\ NavUnchanged
                  /\ UtteranceUnchanged
                  /\ EvIdx(log', "onPageChange") = {}
      ]_vars

(***************************************************************************)
(* The sentence builder hook (useSentenceBuilder) on its own: the host     *)
(* calls addWord and clear in any order. message, currentWordCount and     *)
(* currentEffort hold the hook's message, wordCount and effort; probe      *)
(* counts, since the last clear, the addWord calls whose word was          *)
(* non-empty and sums their efforts.                                       *)
(***************************************************************************)
MaxAdds == 3

SentenceWords == {<<>>, wA, wB, wSpace}

\* the optional wordEffort argument: omitted, or a number
SentenceEfforts == {<<>>, <<0>>, <<1>>, <<2>>}

\* addWord = (word, wordEffort = 1) => ...
addWord(st, word, wordEffort) ==
    LET effort == IF wordEffort = <<>> THEN 1 ELSE wordEffort[1]
    IN  Emit([st EXCEPT !.message = @ \o (IF @ # <<>> THEN <<" ">> ELSE <<>>) \o word,
                        !.currentWordCount = @ + 1,
                        !.currentEffort = @ + effort],
             Ev("addWord", "", word, TRUE))

\* clear = () => ...
clear(st) ==
    Emit([st EXCEPT !.message = <<>>, !.currentWordCount = 0, !.currentEffort = 0],
         Ev("clear", "", <<>>, TRUE))

Tally(words, effort) == [words |-> words, effort |-> effort]

CommitSentence(post) ==
    /\ message' = post.message
    /\ currentWordCount' = post.currentWordCount
    /\ currentEffort' = post.currentEffort
    /\ log' = post.log
    /\ UNCHANGED <<loadId, binding, tree, buttonMetrics, initialPageId, navigateToPageId,
                   currentPageId, pageHistory>>

InitSentence ==
    /\ binding = "react"
    /\ loadId = ""
    /\ tree = Board4.tree
    /\ buttonMetrics = <<>>
    /\ initialPageId = ""
    /\ navigateToPageId = ""
    /\ currentPageId = ""
    /\ pageHistory = <<>>
    /\ message = <<>>
    /\ currentWordCount = 0
    /\ currentEffort = 0
    /\ log = <<>>
    /\ probe = Tally(0, 0)

\* the host calls addWord(word) or addWord(word, wordEffort)
AddWord ==
    /\ currentWordCount < MaxAdds
    /\ \E word \in SentenceWords, wordEffort \in SentenceEfforts :
          /\ CommitSentence(addWord(Now, word, wordEffort))
          /\ probe' = IF word # <<>>
                      THEN Tally(probe.words + 1,
                                 probe.effort + (IF wordEffort = <<>> THEN 1
                                                 ELSE wordEffort[1]))
                      ELSE probe

\* the host calls clear()
Clear ==
    /\ log # <<>>
    /\ CommitSentence(clear(Now))
    /\ probe' = Tally(0, 0)

NextSentence == AddWord \/ Clear

SpecSentence == InitSentence /\ [][NextSentence]_vars

\* C12: after any sequence of appends since the last clear, wordCount is the
\* number of appends whose word was non-empty and cumulativeEffort the sum of
\* their efforts; after clear the message is empty and both counters are 0.
C12_CountersMatchAppends ==
    /\ currentWordCount = probe.words
    /\ currentEffort = probe.effort
    /\ (log # <<>> /\ log[Len(log)].ev = "clear")
          => (message = <<>> /\ currentWordCount = 0 /\ currentEffort = 0)

\* C13: append(word, effort) is a no-op when word is empty after trimming;
\* otherwise the word is joined to the message with exactly one space (none
\* when the message is empty), wordCount increases by 1 and cumulativeEffort
\* by effort.
C13_AppendContract ==
    [][ \A i \in EvIdx(log', "appendText") :
          LET word == log'[i].text
              effort == effortOf(buttonMetrics, log'[1].arg)
          IN  IF trim(word) = <<>>
              THEN UtteranceUnchanged
              ELSE /\ Appended(word)
                   /\ currentWordCount' = currentWordCount + 1
                   /\ currentEffort' = currentEffort + effort
      ]_vars

\* C14: the effort added by an activation that appends a word is the effort
\* of the ButtonMetric whose id is the button's id whenever such a metric is
\* supplied (for every effort >= 0), and 1 exactly when there is none.
C14_MetricEffort ==
    [][ \A b \in Clickable(tree, currentPageId) :
          (/\ OkIdx(log', "appendText") # {}
           /\ Activated(b))
          => LET supplied == {m \in DOMAIN buttonMetrics : buttonMetrics[m].id = b.id}
             IN  IF supplied = {}
                 THEN currentEffort' = currentEffort + 1
                 ELSE \E m \in supplied :
                         currentEffort' = currentEffort + buttonMetrics[m].effort
      ]_vars

(***************************************************************************)
(* The delete operations on their own: one activation of a DELETE_WORD or  *)
(* DELETE_CHARACTER button on a message drawn from all strings of up to    *)
(* MaxMsgLen characters over two letters and the space.                    *)
(***************************************************************************)
MaxMsgLen == 5

MessageChars == {"a", "b", " "}

MessagePool == UNION {[1..k -> MessageChars] : k \in 0..MaxMsgLen}

DeleteTree ==
    Tree(<< Page("p1", nHome,
                 << << Button("dw", wA, <<>>, "", SA("DELETE_WORD", "", <<>>)),
                       Button("dc", wB, <<>>, "", SA("DELETE_CHARACTER", "", <<>>)) >> >>) >>,
         "p1", "")

InitDelete ==
    /\ binding \in {"react", "vue"}
    /\ loadId = ""
    /\ tree = DeleteTree
    /\ buttonMetrics = <<>>
    /\ initialPageId = ""
    /\ navigateToPageId = ""
    /\ currentPageId = "p1"
    /\ pageHistory = <<>>
    /\ message \in MessagePool
    /\ currentWordCount \in 0..1
    /\ currentEffort = 2 * currentWordCount
    /\ log = <<>>
    /\ probe = Off

\* the first activation after the component reached this state
DeleteOnce == log = <<>> /\ Activate

NextDelete == DeleteOnce

SpecDelete == InitDelete /\ [][NextDelete]_vars

\* the maximal runs of non-space characters of s, in order
RECURSIVE TokensOf(_)
TokensOf(s) ==
    IF s = <<>> THEN <<>>
    ELSE IF s[Len(s)] = " " THEN TokensOf(SubSeq(s, 1, Len(s) - 1))
    ELSE LET k == CHOOSE j \in 1..Len(s) :
                     /\ \A x \in j..Len(s) : s[x] # " "
                     /\ (j > 1 => s[j - 1] = " ")
         IN  Append(TokensOf(SubSeq(s, 1, k - 1)), SubSeq(s, k, Len(s)))

\* the tokens ts separated by single spaces
RECURSIVE SpaceJoined(_)
SpaceJoined(ts) ==
    IF ts = <<>> THEN <<>>
    ELSE IF Len(ts) = 1 THEN ts[1]
    ELSE SpaceJoined(SubSeq(ts, 1, Len(ts) - 1)) \o <<" ">> \o ts[Len(ts)]

\* C15: deleteLastWord replaces the message by its trimmed, whitespace-split
\* tokens with the last token dropped, rejoined by single spaces; on the empty
\* message it yields the empty message.
C15_DeleteLastWord ==
    [][ HasEv(log', "deleteLastWord") =>
          LET tokens == TokensOf(message)
          IN  /\ message' = SpaceJoined(SubSeq(tokens, 1, Len(tokens) - 1))
              /\ message = <<>> => message' = <<>>
      ]_vars

\* deleteLastWord has left two tokens joined by one space (of a message that
\* had three)
C15_Witness ==
    /\ HasEv(log, "deleteLastWord")
    /\ message = <<"a", " ", "b">>

\* C16: deleteLastWord and deleteLastCharacter change only the message;
\* wordCount and cumulativeEffort keep their values, and deleteLastCharacter
\* removes exactly one trailing character (none of an empty message).
C16_DeleteFrame ==
    [][ (HasEv(log', "deleteLastWord") \/ HasEv(log', "deleteLastCharacter")) =>
          /\ currentWordCount' = currentWordCount
          /\ currentEffort' = currentEffort
          /\ NavUnchanged
          /\ EvIdx(log', "onPageChange") = {}
          /\ HasEv(log', "deleteLastCharacter") =>
                /\ Len(message') = (IF message = <<>> THEN 0 ELSE Len(message) - 1)
                /\ \A i \in DOMAIN message' : message'[i] = message[i]
      ]_vars

\* deleteLastCharacter has removed one character of a counted message and
\* left the space before it
C16_Witness ==
    /\ HasEv(log, "deleteLastCharacter")
    /\ message = <<"a", " ">>
    /\ currentWordCount = 1
    /\ currentEffort = 2

(***************************************************************************)
(* The Grid Layout Engine on its own: the grid of the current page is      *)
(* rendered once. The page holds one button with a rowSpan by columnSpan   *)
(* footprint, placed anywhere it fits, and null cells or single buttons    *)
(* elsewhere. probe holds the cells the render emitted, in row-major       *)
(* order.                                                                  *)
(***************************************************************************)
MaxRows == 2
MaxCols == 3

\* ids of the single buttons, by position
CellIds ==
    << <<"s11", "s12", "s13", "s14">>,
       <<"s21", "s22", "s23", "s24">>,
       <<"s31", "s32", "s33", "s34">> >>

\* a button with the fields the grid render reads; span 0 stands for an
\* absent rowSpan / columnSpan
SpanButton(id, rowSpan, columnSpan) ==
    [id |-> id, label |-> wA, message |-> <<>>, targetPageId |-> "",
     semanticAction |-> NoSA, rowSpan |-> rowSpan, columnSpan |-> columnSpan]

EmptyCell == [kind |-> "Empty", id |-> "", gridColumn |-> <<0, 0>>, gridRow |-> <<0, 0>>]
SkippedCell == [kind |-> "Skipped", id |-> "", gridColumn |-> <<0, 0>>, gridRow |-> <<0, 0>>]

\* gridColumn: `${colIndex + 1} / span ${colSpan}`, gridRow likewise; the
\* indices of the model are 1-based, those of the code 0-based
OccupiedCell(button, rowIndex, colIndex) ==
    LET colSpan == IF button.columnSpan # 0 THEN button.columnSpan ELSE 1
        rowSpan == IF button.rowSpan # 0 THEN button.rowSpan ELSE 1
    IN  [kind |-> "Occupied", id |-> button.id,
         gridColumn |-> <<(colIndex - 1) + 1, colSpan>>,
         gridRow |-> <<(rowIndex - 1) + 1, rowSpan>>]

\* a render that does not remember which buttons it has rendered
RECURSIVE renderCellsNoSkip(_, _, _, _)
renderCellsNoSkip(grid, k, rendered, cells) ==
    LET cols == IF grid = <<>> THEN 0 ELSE Len(grid[1])
        rowIndex == ((k - 1) \div cols) + 1
        colIndex == ((k - 1) % cols) + 1
        button == grid[rowIndex][colIndex]
    IN  IF cols = 0 \/ k > Len(grid) * cols THEN cells
        ELSE IF button.id = ""
        THEN renderCellsNoSkip(grid, k + 1, rendered, Append(cells, EmptyCell))
        ELSE renderCellsNoSkip(grid, k + 1, rendered,
                               Append(cells, OccupiedCell(button, rowIndex, colIndex)))

\* currentPage.grid.flatMap((row, rowIndex) => row.map((button, colIndex) => ...))
\* from cell k on, with the set of rendered ids and the cells emitted so far
RECURSIVE renderCells(_, _, _, _)
renderCells(grid, k, rendered, cells) ==
    LET cols == IF grid = <<>> THEN 0 ELSE Len(grid[1])
        rowIndex == ((k - 1) \div cols) + 1
        colIndex == ((k - 1) % cols) + 1
        button == grid[rowIndex][colIndex]
    IN  IF cols = 0 \/ k > Len(grid) * cols THEN cells
        ELSE IF button.id = ""
        THEN renderCells(grid, k + 1, rendered, Append(cells, EmptyCell))
        ELSE IF button.id \in rendered
        THEN renderCells(grid, k + 1, rendered, Append(cells, SkippedCell))
        ELSE renderCells(grid, k + 1, rendered \cup {button.id},
                         Append(cells, OccupiedCell(button, rowIndex, colIndex)))

renderGridCells(page) == renderCells(page.grid, 1, {}, <<>>)

\* the grid with the footprint of button q at (r, c) and bg elsewhere
GridWith(rows, cols, q, r, c, R, C, bg) ==
    [i \in 1..rows |->
        [j \in 1..cols |->
            IF i \in r..(r + R - 1) /\ j \in c..(c + C - 1) THEN q
            ELSE IF bg[i][j] THEN SpanButton(CellIds[i][j], 0, 0)
            ELSE NullButton]]

InitGrid ==
    /\ binding \in {"react", "vue"}
    /\ loadId = ""
    /\ \E rows \in 1..MaxRows, cols \in 1..MaxCols :
       \E R \in 1..rows, C \in 1..cols :
       \E r \in 1..(rows - R + 1), c \in 1..(cols - C + 1) :
       \E bg \in [1..rows -> [1..cols -> BOOLEAN]], explicit \in BOOLEAN :
          LET q == SpanButton("q", IF R = 1 /\ ~explicit THEN 0 ELSE R,
                                   IF C = 1 /\ ~explicit THEN 0 ELSE C)
          IN  tree = Tree(<< Page("p1", nHome, GridWith(rows, cols, q, r, c, R, C, bg)) >>,
                          "p1", "")
    /\ buttonMetrics = <<>>
    /\ initialPageId = ""
    /\ navigateToPageId = ""
    /\ currentPageId = "p1"
    /\ pageHistory = <<>>
    /\ message = <<>>
    /\ currentWordCount = 0
    /\ currentEffort = 0
    /\ log = <<>>
    /\ probe = <<>>

\* the component renders the grid of the current page
RenderGrid ==
    /\ log = <<>>
    /\ HasCurrentPage(tree, currentPageId)
    /\ probe' = renderGridCells(PageOf(tree, currentPageId))
    /\ log' = << Ev("render", currentPageId, <<>>, TRUE) >>
    /\ UNCHANGED <<loadId, binding, tree, buttonMetrics, initialPageId, navigateToPageId,
                   currentPageId, pageHistory, message, currentWordCount, currentEffort>>

NextGrid == RenderGrid

SpecGrid == InitGrid /\ [][NextGrid]_vars

\* C17: a button that fills every cell of its rowSpan = R by colSpan = C
\* footprint starting at (r, c) gets exactly one Occupied cell, at the first
\* footprint cell, with gridColumn = c+1 / span C and gridRow = r+1 / span R,
\* and R*C - 1 Skipped cells; a null cell is emitted as Empty.
C17_SpanRenderedOnce ==
    log # <<>> =>
      LET grid == PageOf(tree, currentPageId).grid
          cols == Len(grid[1])
          Pos == (1..Len(grid)) \X (1..cols)
          At(p) == probe[(p[1] - 1) * cols + p[2]]
          Ids == {grid[p[1]][p[2]].id : p \in Pos} \ {""}
      IN  /\ Len(probe) = Len(grid) * cols
          /\ \A p \in Pos : grid[p[1]][p[2]].id = "" <=> At(p).kind = "Empty"
          /\ \A id \in Ids :
                LET Occ == {p \in Pos : grid[p[1]][p[2]].id = id}
                    first == CHOOSE p \in Occ :
                                \A o \in Occ : p[1] < o[1] \/ (p[1] = o[1] /\ p[2] <= o[2])
                    b == grid[first[1]][first[2]]
                    R == IF b.rowSpan = 0 THEN 1 ELSE b.rowSpan
                    C == IF b.columnSpan = 0 THEN 1 ELSE b.columnSpan
                    Footprint == (first[1]..(first[1] + R - 1)) \X (first[2]..(first[2] + C - 1))
                IN  Occ = Footprint =>
                      /\ At(first) = [kind |-> "Occupied", id |-> id,
                                      gridColumn |-> <<first[2], C>>,
                                      gridRow |-> <<first[1], R>>]
                      /\ \A p \in Occ \ {first} : At(p).kind = "Skipped"
                      /\ Cardinality({k \in DOMAIN probe : probe[k].id = id}) = 1
                      /\ Cardinality({p \in Occ : At(p).kind = "Skipped"}) = R * C - 1

\* a 2 by 2 button starting in the second column was rendered once and
\* skipped three times, next to a null cell and a single button
C17_Witness ==
    /\ log # <<>>
    /\ Len(probe) = 6
    /\ probe[2] = [kind |-> "Occupied", id |-> "q",
                   gridColumn |-> <<2, 2>>, gridRow |-> <<1, 2>>]
    /\ probe[3].kind = "Skipped" /\ probe[5].kind = "Skipped" /\ probe[6].kind = "Skipped"
    /\ probe[1].kind = "Empty"
    /\ probe[4].kind = "Occupied"

(***************************************************************************)
(* The image source of a grid cell on its own: one button, drawn from all  *)
(* combinations of the image fields the render reads, is rendered once     *)
(* with or without loadId. probe holds the src given to the cell's img     *)
(* (<<>> when no img is rendered) and whether the render threw.            *)
(***************************************************************************)
\* button.image.length > 1000
DataUrlThreshold == 1000

dataPrefix == <<"d","a","t","a",":","i","m","a","g","e","/">>
sBracket == <<"[">>
gridsPrefix == <<"G","r","i","d","s","/">>
apiPrefix == <<"/","a","p","i","/","i","m","a","g","e","/">>

startsWith(s, p) == Len(s) >= Len(p) /\ SubSeq(s, 1, Len(p)) = p

\* entryPath.match(/^(?:Grids\/)?(.+)$/): <<>> for no match, else <<group 1>>
matchGrids(entryPath) ==
    IF entryPath = <<>> THEN <<>>
    ELSE IF startsWith(entryPath, gridsPrefix) /\ Len(entryPath) > Len(gridsPrefix)
    THEN << SubSeq(entryPath, Len(gridsPrefix) + 1, Len(entryPath)) >>
    ELSE << entryPath >>

\* encodeURIComponent, on the characters the model uses
RECURSIVE encodeURIComponent(_)
encodeURIComponent(s) ==
    IF s = <<>> THEN <<>>
    ELSE (CASE s[1] = " " -> <<"%", "2", "0">>
            [] s[1] = "/" -> <<"%", "2", "F">>
            [] s[1] = ":" -> <<"%", "3", "A">>
            [] s[1] = "[" -> <<"%", "5", "B">>
            [] s[1] = "]" -> <<"%", "5", "D">>
            [] OTHER -> <<s[1]>>) \o encodeURIComponent(Tail(s))

\* `/api/image/${loadId}/${path}`
apiUrlOf(id, path) == apiPrefix \o <<id>> \o <<"/">> \o path

Rendered(src) == [threw |-> FALSE, src |-> src]
Threw == [threw |-> TRUE, src |-> <<>>]

\* a button with the fields the image resolution reads; <<>> stands for an
\* absent string, parameters.present = FALSE for absent parameters
ImageButton(id, image, resolvedImageEntry, parameters) ==
    [id |-> id, label |-> wA, message |-> <<>>, targetPageId |-> "",
     semanticAction |-> NoSA, rowSpan |-> 0, columnSpan |-> 0,
     image |-> image, resolvedImageEntry |-> resolvedImageEntry,
     parameters |-> parameters]

\* React: imageSrc, apiUrl and <img src={(apiUrl || imageSrc) ?? undefined}>
imageOfReact(button, id) ==
    LET entry == button.resolvedImageEntry
        image == button.image
        params == button.parameters
        imageSrc == IF entry # <<>> /\ ~startsWith(entry, sBracket) THEN entry
                    ELSE IF image # <<>> /\ ~startsWith(image, sBracket) THEN image
                    ELSE <<>>
        long == image # <<>> /\ Len(image) > DataUrlThreshold
        pathMatch == matchGrids(entry)
        apiUrl == IF id = "" THEN <<>>
                  ELSE IF long /\ params.image_id # <<>>
                  THEN apiUrlOf(id, params.image_id)
                  ELSE IF entry # <<>> /\ ~startsWith(entry, sBracket) /\ pathMatch # <<>>
                  THEN apiUrlOf(id, pathMatch[1])
                  ELSE <<>>
    IN  \* params.image_id is read of undefined parameters
        IF id # "" /\ long /\ ~params.present THEN Threw
        ELSE Rendered(IF apiUrl # <<>> THEN apiUrl ELSE imageSrc)

\* Vue: imageSrc, apiUrl and h('img', { src: imageSrc || apiUrl })
imageOfVue(button, id) ==
    LET resolvedEntry == button.resolvedImageEntry
        buttonImage == button.image
        params == button.parameters
        plainEntry == /\ resolvedEntry # <<>>
                      /\ ~startsWith(resolvedEntry, sBracket)
                      /\ ~startsWith(resolvedEntry, dataPrefix)
        pathMatch == matchGrids(resolvedEntry)
        imageSrc == IF resolvedEntry # <<>> /\ startsWith(resolvedEntry, dataPrefix)
                    THEN resolvedEntry
                    ELSE IF buttonImage # <<>> /\ startsWith(buttonImage, dataPrefix)
                    THEN buttonImage
                    ELSE IF plainEntry
                    THEN (IF id # "" THEN <<>> ELSE resolvedEntry)
                    ELSE IF buttonImage # <<>> /\ ~startsWith(buttonImage, sBracket)
                    THEN buttonImage
                    ELSE <<>>
        entryUrl == IF ~(resolvedEntry # <<>> /\ startsWith(resolvedEntry, dataPrefix))
                       /\ ~(buttonImage # <<>> /\ startsWith(buttonImage, dataPrefix))
                       /\ plainEntry /\ id # "" /\ pathMatch # <<>>
                    THEN apiUrlOf(id, encodeURIComponent(pathMatch[1]))
                    ELSE <<>>
        apiUrl == IF id # "" /\ imageSrc = <<>> /\ entryUrl = <<>>
                     /\ params.present /\ params.image_id # <<>>
                  THEN apiUrlOf(id, encodeURIComponent(params.image_id))
                  ELSE entryUrl
    IN  Rendered(IF imageSrc # <<>> THEN imageSrc ELSE apiUrl)

imageOf(b, button, id) ==
    IF b = "react" THEN imageOfReact(button, id) ELSE imageOfVue(button, id)

InlineImage == dataPrefix \o <<"x">>
LongInlineImage == dataPrefix \o [k \in 1..DataUrlThreshold |-> "A"]
BracketImage == <<"[", "b", "]">>

ImagePool ==
    {<<>>, InlineImage, LongInlineImage, BracketImage, <<"i", ".", "p", "n", "g">>}

ResolvedEntryPool ==
    {<<>>, dataPrefix \o <<"y">>, BracketImage,
     gridsPrefix \o <<"a", " ", "b", ".", "p", "n", "g">>, <<"c", ".", "p", "n", "g">>}

ParametersPool ==
    {[present |-> FALSE, image_id |-> <<>>], [present |-> TRUE, image_id |-> <<>>],
     [present |-> TRUE, image_id |-> <<"i", "d", " ", "1">>]}

InitImage ==
    /\ binding \in {"react", "vue"}
    /\ loadId \in {"", "7"}
    /\ \E image \in ImagePool, entry \in ResolvedEntryPool, params \in ParametersPool :
          tree = Tree(<< Page("p1", nHome,
                              << << ImageButton("u", image, entry, params) >> >>) >>,
                      "p1", "")
    /\ buttonMetrics = <<>>
    /\ initialPageId = ""
    /\ navigateToPageId = ""
    /\ currentPageId = "p1"
    /\ pageHistory = <<>>
    /\ message = <<>>
    /\ currentWordCount = 0
    /\ currentEffort = 0
    /\ log = <<>>
    /\ probe = <<>>

\* the component renders the cell of the button
RenderImage ==
    /\ log = <<>>
    /\ probe' = imageOf(binding, TheButton, loadId)
    /\ log' = << Ev("render", currentPageId, <<>>, TRUE) >>
    /\ UNCHANGED <<loadId, binding, tree, buttonMetrics, initialPageId, navigateToPageId,
                   currentPageId, pageHistory, message, currentWordCount, currentEffort>>

NextImage == RenderImage

SpecImage == InitImage /\ [][NextImage]_vars

IsInline(s) == startsWith(s, dataPrefix)
IsBracketed(s) == startsWith(s, sBracket)
IsDeferred(src) == loadId # "" /\ startsWith(src, apiPrefix \o <<loadId>> \o <<"/">>)

\* C18: a button with inline image data and a non-bracketed archive-path
\* resolvedImageEntry, rendered with loadId, gets the inline data as its image
\* source and not a deferred fetch URL.
C18_InlineBeforeDeferred ==
    (/\ log # <<>>
     /\ loadId # ""
     /\ IsInline(TheButton.image)
     /\ TheButton.resolvedImageEntry # <<>>
     /\ ~IsBracketed(TheButton.resolvedImageEntry)
     /\ ~IsInline(TheButton.resolvedImageEntry))
    => probe = Rendered(TheButton.image)

\* C19: without inline data, a non-empty non-bracketed resolvedImageEntry
\* gives a deferred URL (archive-folder prefix stripped, remainder
\* percent-encoded) with loadId and the raw string without; else a non-empty
\* non-bracketed image is used directly; else parameters.image_id gives a
\* deferred URL only with loadId; else there is no source. No deferred URL is
\* produced without loadId.
C19_ImageSourceChain ==
    (/\ log # <<>>
     /\ ~IsInline(TheButton.image)
     /\ ~IsInline(TheButton.resolvedImageEntry))
    =>
    LET entry == TheButton.resolvedImageEntry
        image == TheButton.image
        params == TheButton.parameters
        stripped == IF startsWith(entry, gridsPrefix)
                    THEN SubSeq(entry, Len(gridsPrefix) + 1, Len(entry)) ELSE entry
    IN  /\ ~probe.threw
        /\ loadId = "" => ~startsWith(probe.src, apiPrefix)
        /\ IF entry # <<>> /\ ~IsBracketed(entry)
           THEN probe.src = IF loadId # ""
                            THEN apiPrefix \o <<loadId>> \o <<"/">>
                                    \o encodeURIComponent(stripped)
                            ELSE entry
           ELSE IF image # <<>> /\ ~IsBracketed(image)
           THEN probe.src = image
           ELSE IF params.present /\ params.image_id # <<>>
           THEN IF loadId # "" THEN IsDeferred(probe.src) ELSE probe.src = <<>>
           ELSE probe.src = <<>>

\* C20: whenever the tree or the explicit initialPageId changes,
\* currentPageId is set to the Page Resolver's result for the new inputs and
\* the history becomes empty.
C20_ReloadResolves ==
    [][ (tree' # tree \/ initialPageId' # initialPageId) =>
          /\ currentPageId' = resolveInitialPageId(tree', initialPageId')
          /\ pageHistory' = <<>>
      ]_vars

\* C21: an external navigateToPageId request that names an existing page sets
\* currentPageId to that page and empties the history, without pushing the
\* page that was current; a request that names no existing page changes
\* neither currentPageId nor the history.
C21_OverrideContract ==
    [][ navigateToPageId' # navigateToPageId =>
          IF navigateToPageId' # "" /\ HasPage(tree, navigateToPageId')
          THEN /\ currentPageId' = navigateToPageId'
               /\ pageHistory' = <<>>
          ELSE NavUnchanged
      ]_vars

\* a request made after some navigation has been applied: the requested page
\* is current and the history is empty
C21_Witness ==
    /\ ~HasEv(log, "load")
    /\ HasOkEv(log, "override")
    /\ navigateToPageId # ""
    /\ currentPageId = navigateToPageId
    /\ pageHistory = <<>>
    /\ message # <<>>

\* C22: in every reachable state no history entry is the toolbar page
\* (tree.toolbarId), whatever buttons are activated.
C22_ToolbarNotInHistory ==
    tree.toolbarId # "" =>
        \A i \in DOMAIN pageHistory : pageHistory[i] # tree.toolbarId

\* the closed enumeration of intents
KnownIntents ==
    {"NAVIGATE_TO", "GO_BACK", "GO_HOME", "DELETE_WORD", "DELETE_CHARACTER",
     "CLEAR_TEXT", "SPEAK_IMMEDIATE", "SPEAK_TEXT", "INSERT_TEXT"}

HasUnknownIntent(b) ==
    b.semanticAction.intent # "" /\ b.semanticAction.intent \notin KnownIntents

\* semanticAction.text, else message, else label
TextPayload(b) ==
    IF b.semanticAction.text # <<>> THEN b.semanticAction.text
    ELSE IF b.message # <<>> THEN b.message
    ELSE b.label

NoImg == [src |-> <<>>, status |-> "none", display |-> FALSE, gets |-> 0]

\* a newly created <img src=...>: the browser requests the source once
MountImg(rendered) ==
    IF rendered.threw \/ rendered.src = <<>> THEN NoImg
    ELSE [src |-> rendered.src, status |-> "pending", display |-> TRUE, gets |-> 1]

\* the error event of the element: Vue's onError sets style.display = 'none',
\* React's <img> has no error handler and stays as it is
imgError(b, img) ==
    IF b = "vue" THEN [img EXCEPT !.status = "error", !.display = FALSE]
    ELSE [img EXCEPT !.status = "error"]

imgLoaded(img) == [img EXCEPT !.status = "loaded"]

CurrentCell == PageOf(tree, currentPageId).grid[1][1]

FetchTree(image, entry, params) ==
    Tree(<< Page("p1", nHome,
                 << << [ImageButton("u", image, entry, params)
                            EXCEPT !.targetPageId = "p2"] >> >>),
            Page("p2", nFood,
                 << << [ImageButton("v", image, entry, params)
                            EXCEPT !.targetPageId = "p1"] >> >>) >>,
         "p1", "")

InitFetch ==
    /\ binding \in {"react", "vue"}
    /\ loadId \in {"", "7"}
    /\ \E image \in ImagePool \ {LongInlineImage}, entry \in ResolvedEntryPool,
          params \in ParametersPool :
          tree = FetchTree(image, entry, params)
    /\ buttonMetrics = <<>>
    /\ initialPageId = ""
    /\ navigateToPageId = ""
    /\ currentPageId = "p1"
    /\ pageHistory = <<>>
    /\ message = <<>>
    /\ currentWordCount = 0
    /\ currentEffort = 0
    /\ log = <<>>
    /\ probe = MountImg(imageOf(binding, tree.pages[1].grid[1][1], loadId))

\* a handler ran: the state is committed and the grid rendered again; the
\* element of the cell is kept unless another page is shown
CommitFetch(post) ==
    /\ currentPageId' = post.currentPageId
    /\ pageHistory' = post.pageHistory
    /\ message' = post.message
    /\ currentWordCount' = post.currentWordCount
    /\ currentEffort' = post.currentEffort
    /\ log' = post.log
    /\ probe' = IF post.currentPageId = currentPageId THEN probe
                ELSE MountImg(imageOf(binding,
                                      PageOf(tree, post.currentPageId).grid[1][1],
                                      loadId))

\* the request of the element is answered with the image
FetchSucceeds ==
    /\ probe.status = "pending"
    /\ probe' = imgLoaded(probe)
    /\ log' = << Ev("imgLoad", CurrentCell.id, probe.src, TRUE) >>
    /\ UNCHANGED <<loadId, binding, tree, buttonMetrics, initialPageId, navigateToPageId,
                   currentPageId, pageHistory, message, currentWordCount, currentEffort>>

\* the request of the element is answered with 404 or fails
FetchFails ==
    /\ probe.status = "pending"
    /\ probe' = imgError(binding, probe)
    /\ log' = << Ev("imgError", CurrentCell.id, probe.src, FALSE) >>
    /\ UNCHANGED <<loadId, binding, tree, buttonMetrics, initialPageId, navigateToPageId,
                   currentPageId, pageHistory, message, currentWordCount, currentEffort>>

\* onClick of the cell's button
ClickCell ==
    /\ Len(pageHistory) < MaxHist
    /\ CommitFetch(handleButtonClick(tree, buttonMetrics, Now, CurrentCell))
    /\ UNCHANGED <<loadId, binding, tree, buttonMetrics, initialPageId, navigateToPageId>>

\* the header's back control
ClickBackFetch ==
    /\ Len(pageHistory) > 0
    /\ CommitFetch(handleBack(Now))
    /\ UNCHANGED <<loadId, binding, tree, buttonMetrics, initialPageId, navigateToPageId>>

NextFetch ==
    \/ FetchSucceeds
    \/ FetchFails
    \/ ClickCell
    \/ ClickBackFetch

SpecFetch == InitFetch /\ [][NextFetch]_vars

\* C24: a deferred image whose fetch fails leaves its cell rendered
\* label-only, the fetch is never retried, and a pending or failed fetch
\* never prevents the grid from rendering or a navigation from being
\* committed.
C24_FailedFetchLabelOnly ==
    IsDeferred(probe.src) =>
        /\ probe.status = "error" => ~probe.display
        /\ probe.gets <= 1
        /\ (probe.status \in {"pending", "error"} /\ Len(pageHistory) < MaxHist)
              => ENABLED ClickCell

\* C25: rendering the cell of a button with a data-shape anomaly (no
\* parameters map, no image, no resolvedImageEntry) raises no error: the
\* image resolution ends with a source or with none, never with a thrown
\* exception.
C25_RenderNeverThrows ==
    HasEv(log, "render") => ~probe.threw

(***************************************************************************)
(* goToPage and handleBack statement by statement. A handler runs to       *)
(* completion on the UI event loop: the render that follows its state      *)
(* writes (React's batched re-render, Vue's queued render job) runs after  *)
(* the handler has returned and before the next user event. probe holds    *)
(* the handler's position (pc), its operation and argument, whether a      *)
(* state write awaits a render (dirty), the currentPageId and history the  *)
(* last render computed the grid from (seen) and those of the render       *)
(* before it (prev).                                                       *)
(***************************************************************************)
Seen(cur, hist) == [currentPageId |-> cur, pageHistory |-> hist]

AtomicTree ==
    Tree(<< Page("p1", nHome, <<>>), Page("p2", nFood, <<>>),
            Page("p3", nStarts, <<>>) >>, "p1", "")

AtomicTargets == {"", "p1", "p2", "p3", "missing"}

InitAtomic ==
    /\ binding \in {"react", "vue"}
    /\ loadId = ""
    /\ tree = AtomicTree
    /\ buttonMetrics = <<>>
    /\ initialPageId = ""
    /\ navigateToPageId = ""
    /\ currentPageId = resolveInitialPageId(tree, initialPageId)
    /\ pageHistory = <<>>
    /\ message = <<>>
    /\ currentWordCount = 0
    /\ currentEffort = 0
    /\ log = <<>>
    /\ probe = [pc |-> "idle", op |-> "", arg |-> "", dirty |-> FALSE,
                seen |-> Seen(currentPageId, pageHistory),
                prev |-> Seen(currentPageId, pageHistory)]

\* goToPage(targetPageId): the guard and, when there is a current page, the
\* write of the history
GoToPagePush ==
    /\ probe.pc = "idle" /\ ~probe.dirty
    /\ Len(pageHistory) < MaxHist
    /\ \E targetPageId \in AtomicTargets :
          IF targetPageId = "" \/ ~HasPage(tree, targetPageId)
          THEN /\ log' = << Ev("goToPage", targetPageId, <<>>, FALSE) >>
               /\ probe' = [probe EXCEPT !.op = "goToPage", !.arg = targetPageId]
               /\ UNCHANGED pageHistory
          ELSE /\ log' = << Ev("goToPage", targetPageId, <<>>, TRUE) >>
               /\ pageHistory' = IF HasCurrentPage(tree, currentPageId)
                                 THEN Append(pageHistory, currentPageId)
                                 ELSE pageHistory
               /\ probe' = [probe EXCEPT !.pc = "set", !.op = "goToPage",
                                         !.arg = targetPageId,
                                         !.dirty = HasCurrentPage(tree, currentPageId)]
    /\ UNCHANGED <<loadId, binding, tree, buttonMetrics, initialPageId, navigateToPageId,
                   currentPageId, message, currentWordCount, currentEffort>>

\* handleBack: the guard and the write of the history
HandleBackPop ==
    /\ probe.pc = "idle" /\ ~probe.dirty
    /\ Len(pageHistory) > 0
    /\ pageHistory' = SubSeq(pageHistory, 1, Len(pageHistory) - 1)
    /\ log' = << Ev("handleBack", "", <<>>, TRUE) >>
    /\ probe' = [probe EXCEPT !.pc = "set", !.op = "handleBack",
                              !.arg = pageHistory[Len(pageHistory)], !.dirty = TRUE]
    /\ UNCHANGED <<loadId, binding, tree, buttonMetrics, initialPageId, navigateToPageId,
                   currentPageId, message, currentWordCount, currentEffort>>

\* setCurrentPageId(...) / currentPageId.value = ...
SetCurrentPageId ==
    /\ probe.pc = "set"
    /\ currentPageId' = probe.arg
    /\ log' = Append(log, Ev("setCurrentPageId", probe.arg, <<>>, TRUE))
    /\ probe' = [probe EXCEPT !.pc = "notify", !.dirty = TRUE]
    /\ UNCHANGED <<loadId, binding, tree, buttonMetrics, initialPageId, navigateToPageId,
                   pageHistory, message, currentWordCount, currentEffort>>

\* if (onPageChange) onPageChange(...), and the handler returns
NotifyPageChange ==
    /\ probe.pc = "notify"
    /\ log' = Append(log, Ev("onPageChange", currentPageId, <<>>, TRUE))
    /\ probe' = [probe EXCEPT !.pc = "idle"]
    /\ UNCHANGED <<loadId, binding, tree, buttonMetrics, initialPageId, navigateToPageId,
                   currentPageId, pageHistory, message, currentWordCount, currentEffort>>

\* a render that may run between two statements of a handler
RenderAnyTime ==
    /\ probe.dirty
    /\ log' = << Ev("render", currentPageId, <<>>, TRUE) >>
    /\ probe' = [probe EXCEPT !.dirty = FALSE,
                              !.seen = Seen(currentPageId, pageHistory),
                              !.prev = probe.seen]
    /\ UNCHANGED <<loadId, binding, tree, buttonMetrics, initialPageId, navigateToPageId,
                   currentPageId, pageHistory, message, currentWordCount, currentEffort>>

\* the render scheduled by the state writes: it runs once the handler has
\* returned and computes currentPage and the grid cells
Render ==
    /\ probe.pc = "idle"
    /\ probe.dirty
    /\ log' = << Ev("render", currentPageId, <<>>, TRUE) >>
    /\ probe' = [probe EXCEPT !.dirty = FALSE,
                              !.seen = Seen(currentPageId, pageHistory),
                              !.prev = probe.seen]
    /\ UNCHANGED <<loadId, binding, tree, buttonMetrics, initialPageId, navigateToPageId,
                   currentPageId, pageHistory, message, currentWordCount, currentEffort>>

NextAtomic ==
    \/ GoToPagePush
    \/ HandleBackPop
    \/ SetCurrentPageId
    \/ NotifyPageChange
    \/ Render

SpecAtomic == InitAtomic /\ [][NextAtomic]_vars

\* C26: each navigation transition is atomic with respect to a single user
\* event: what a render observes is the state the previous render observed,
\* or that state after one whole goToPage or one whole handleBack; no render
\* observes currentPageId updated while the history is not, or the reverse.
C26_NoTornRender ==
    [][ LET pre == State(probe.seen.currentPageId, probe.seen.pageHistory, <<>>, 0, 0)
            post == IF probe.op = "goToPage" THEN goToPage(tree, pre, probe.arg).st
                    ELSE IF probe.op = "handleBack" THEN handleBack(pre)
                    ELSE pre
        IN  \/ probe'.seen = probe.seen
            \/ probe'.seen = Seen(post.currentPageId, post.pageHistory)
      ]_vars

\* a render has observed a whole goToPage: another page is current and the
\* page that was current has been pushed
C26_Witness ==
    /\ probe.pc = "idle" /\ ~probe.dirty
    /\ probe.op = "goToPage"
    /\ probe.seen # probe.prev
    /\ probe.seen.currentPageId # probe.prev.currentPageId
    /\ Len(probe.seen.pageHistory) = 2

\* C27: in every state observed by a render or an activation currentPageId
\* is null or names a page of the current tree, every history entry is a
\* page of the current tree, and currentPageId is null only when the tree
\* has no pages.
C27_NavigationWellFormed ==
    /\ currentPageId = "" \/ HasPage(tree, currentPageId)
    /\ \A i \in DOMAIN pageHistory : HasPage(tree, pageHistory[i])
    /\ currentPageId = "" => tree.pages = <<>>

\* this step ran navigateTo or goBack with success, a tree load or an
\* applied override
NavigationStep ==
    \/ OkIdx(log', "goToPage") # {}
    \/ OkIdx(log', "handleBack") # {}
    \/ EvIdx(log', "load") # {}
    \/ OkIdx(log', "override") # {}

\* this step ran append, deleteLastWord, deleteLastCharacter or clear
UtteranceStep ==
    \/ OkIdx(log', "appendText") # {}
    \/ EvIdx(log', "deleteLastWord") # {}
    \/ EvIdx(log', "deleteLastCharacter") # {}
    \/ EvIdx(log', "clearMessage") # {}

\* the frame conditions of C28 without the one of goHome
C28_FrameOfTheOthers ==
    [][ /\ NavigationStep => UtteranceUnchanged
        /\ UtteranceStep => (NavUnchanged /\ EvIdx(log', "onPageChange") = {})
      ]_vars

\* C28: the navigation operations (navigateTo, goBack, goHome, tree load,
\* override) leave message, wordCount and cumulativeEffort unchanged; the
\* utterance operations (append, deleteLastWord, deleteLastCharacter, clear)
\* leave currentPageId and the history unchanged and emit no onPageChange.
C28_FrameEffects ==
    [][ /\ NavigationStep => UtteranceUnchanged
        /\ \A b \in Clickable(tree, currentPageId) :
              (b.semanticAction.intent = "GO_HOME" /\ Activated(b))
                  => UtteranceUnchanged
        /\ UtteranceStep => (NavUnchanged /\ EvIdx(log', "onPageChange") = {})
      ]_vars

(***************************************************************************)
(* The loading hooks useAACFile(url, options) and                          *)
(* useAACFileFromFile(file, options). probe is the state of one hook: its  *)
(* inputs (input is the url or the file, "" a null file), the tree, error  *)
(* and loading it exposes ("" is null; a tree or an error is named by the  *)
(* input it came from), the loads awaiting the loader's promise            *)
(* (inflight), the number of loads started, and the most recent call of    *)
(* load (latest: a started load with its outcome, or a call that returned  *)
(* without loading).                                                       *)
(***************************************************************************)
MaxLoads == 3

Hooks == {"useAACFile", "useAACFileFromFile"}

\* url is a string; file is a File, a Blob or null
InputsOf(hook) == IF hook = "useAACFile" THEN {"a", "b"} ELSE {"", "a", "b"}

\* useState(null), useState(true) / useState(false), useState(null)
HookState(hook, input, enabled) ==
    [hook |-> hook, input |-> input, enabled |-> enabled,
     tree |-> "", loading |-> (hook = "useAACFile"), error |-> "",
     inflight |-> {}, started |-> 0,
     latest |-> [kind |-> "none", seq |-> 0, outcome |-> ""]]

\* const load = useCallback(async () => { ... }) up to the await
load(hs) ==
    IF hs.hook = "useAACFile" /\ ~hs.enabled
    THEN [hs EXCEPT !.latest = [kind |-> "skip", seq |-> 0, outcome |-> ""]]
    ELSE IF hs.hook = "useAACFileFromFile" /\ (hs.input = "" \/ ~hs.enabled)
    THEN [hs EXCEPT !.tree = "",
                    !.latest = [kind |-> "skip", seq |-> 0, outcome |-> ""]]
    ELSE [hs EXCEPT !.loading = TRUE,
                    !.error = "",
                    !.started = @ + 1,
                    !.inflight = @ \cup {[seq |-> hs.started + 1, input |-> hs.input]},
                    !.latest = [kind |-> "load", seq |-> hs.started + 1,
                                outcome |-> "pending"]]

Settled(hs, l, outcome) ==
    [hs EXCEPT !.inflight = @ \ {l},
               !.latest = IF @.kind = "load" /\ @.seq = l.seq
                          THEN [@ EXCEPT !.outcome = outcome] ELSE @]

\* the loader's promise resolves: setTree(loadedTree); finally setLoading(false)
resolved(hs, l) ==
    [Settled(hs, l, "ok") EXCEPT !.tree = l.input, !.loading = FALSE]

\* the loader's promise rejects: setError(err); finally setLoading(false)
rejected(hs, l) ==
    [Settled(hs, l, "err") EXCEPT !.error = l.input, !.loading = FALSE]

HookFrame ==
    UNCHANGED <<loadId, binding, tree, buttonMetrics, initialPageId, navigateToPageId,
                currentPageId, pageHistory, message, currentWordCount, currentEffort>>

\* the hook is mounted: useState and the first run of useEffect(load)
InitLoad ==
    /\ binding = "react"
    /\ loadId = ""
    /\ tree = Tree(<<>>, "", "")
    /\ buttonMetrics = <<>>
    /\ initialPageId = ""
    /\ navigateToPageId = ""
    /\ currentPageId = ""
    /\ pageHistory = <<>>
    /\ message = <<>>
    /\ currentWordCount = 0
    /\ currentEffort = 0
    /\ log = <<>>
    /\ \E hook \in Hooks, enabled \in BOOLEAN :
          \E input \in InputsOf(hook) :
             probe = load(HookState(hook, input, enabled))

\* the host renders the hook with another url or file: load changes and
\* useEffect(() => { load() }, [load]) runs it
SetInput ==
    /\ probe.started < MaxLoads
    /\ \E input \in InputsOf(probe.hook) :
          /\ input # probe.input
          /\ probe' = load([probe EXCEPT !.input = input])
          /\ log' = << Ev("load", input, <<>>, TRUE) >>
    /\ HookFrame

\* the host renders the hook with other options: load changes and the effect
\* runs it
SetEnabled ==
    /\ probe.started < MaxLoads
    /\ probe' = load([probe EXCEPT !.enabled = ~@])
    /\ log' = << Ev("load", probe.input, <<>>, probe'.enabled) >>
    /\ HookFrame

\* the host calls reload()
Reload ==
    /\ probe.started < MaxLoads
    /\ probe' = load(probe)
    /\ log' = << Ev("reload", probe.input, <<>>, TRUE) >>
    /\ HookFrame

\* a load in flight settles with a tree
LoadResolves ==
    /\ \E l \in probe.inflight :
          /\ probe' = resolved(probe, l)
          /\ log' = << Ev("resolved", l.input, <<>>, TRUE) >>
    /\ HookFrame

\* a load in flight settles with an error
LoadRejects ==
    /\ \E l \in probe.inflight :
          /\ probe' = rejected(probe, l)
          /\ log' = << Ev("rejected", l.input, <<>>, FALSE) >>
    /\ HookFrame

NextLoad ==
    \/ SetInput
    \/ SetEnabled
    \/ Reload
    \/ LoadResolves
    \/ LoadRejects

SpecLoad == InitLoad /\ [][NextLoad]_vars

\* C29: once all loads have settled, the tree, error and loading the hook
\* exposes are those of the most recently requested input: a late
\* completion of a superseded load never overwrites them.
C29_LatestInputWins ==
    (probe.inflight = {} /\ probe.started > 0) =>
        /\ (probe.latest.kind = "load" /\ probe.latest.outcome = "ok")
              => (probe.tree = probe.input /\ probe.error = "" /\ ~probe.loading)
        /\ (probe.latest.kind = "load" /\ probe.latest.outcome = "err")
              => (probe.error = probe.input /\ ~probe.loading)
        /\ (probe.latest.kind = "skip" /\ probe.hook = "useAACFileFromFile")
              => probe.tree = ""

\* C30: loading is false whenever no load is in flight: after the loads
\* have settled, and in a hook with enabled: false or a null file.
C30_LoadingFalseWhenIdle ==
    probe.inflight = {} => ~probe.loading

====
